---- MODULE Spec2Model ----
(***************************************************************************)
(* Model of the JobAgent background service worker: the job aggregation    *)
(* pipeline (scrapeAllJobs), the keyword cache (getCvKeywords), the scorer *)
(* (scoreJob) and source discovery (generateInitialSources).               *)
(*                                                                         *)
(* Time is counted in seconds since the epoch of the model.  Strings that  *)
(* the code inspects character by character are sequences of one-character *)
(* strings.                                                                *)
(***************************************************************************)
EXTENDS Integers, Sequences, FiniteSets, TLC

NULL == "null"

Min(a, b) == IF a < b THEN a ELSE b

Range(s) == {s[i] : i \in 1..Len(s)}

\* ------------------------------------------------------------------------
\* Characters and String.prototype helpers
\* ------------------------------------------------------------------------

LowerLetters ==
  << "a", "b", "c", "d", "e", "f", "g", "h", "i", "j", "k", "l", "m",
     "n", "o", "p", "q", "r", "s", "t", "u", "v", "w", "x", "y", "z" >>

UpperLetters ==
  << "A", "B", "C", "D", "E", "F", "G", "H", "I", "J", "K", "L", "M",
     "N", "O", "P", "Q", "R", "S", "T", "U", "V", "W", "X", "Y", "Z" >>

\* Characters without case that keywords are made of as well.
OtherChars ==
  << "0", "1", "2", "3", "4", "5", "6", "7", "8", "9", "+", "#", ".", "-",
     "/", "_", "&", "@" >>

\* String.prototype.toLowerCase, one character
LowerChar(c) ==
  IF \E i \in 1..Len(UpperLetters) : UpperLetters[i] = c
    THEN LowerLetters[CHOOSE i \in 1..Len(UpperLetters) : UpperLetters[i] = c]
    ELSE c

\* String.prototype.toLowerCase
toLowerCase(s) == [i \in 1..Len(s) |-> LowerChar(s[i])]

\* String.prototype.includes: needle occurs as a contiguous substring
includes(hay, needle) ==
  \E i \in 0..(Len(hay) - Len(needle)) :
    \A k \in 1..Len(needle) : hay[i + k] = needle[k]

\* ------------------------------------------------------------------------
\* IEEE-754 double arithmetic, as far as scoreJob needs it:
\*   Math.round((matched / keywords.size) * 100)
\* A positive double is [m |-> 53 bits, most significant first, e |-> exponent]
\* with value (m read as a binary integer) * 2^e.
\* ------------------------------------------------------------------------

MantissaBits == 53

\* digits are produced and added LimbBits at a time
LimbBits == 9

\* the j-th of the w binary digits of v, most significant first
Bit(v, w, j) == (v \div (2 ^ (w - j))) % 2

RECURSIVE BitsToInt(_)
BitsToInt(b) ==
  IF Len(b) = 0 THEN 0 ELSE 2 * BitsToInt(SubSeq(b, 1, Len(b) - 1)) + b[Len(b)]

RECURSIVE FracLimbs(_, _, _)
\* the next c groups of LimbBits binary digits of r/n (0 <= r < n), by long
\* division
FracLimbs(r, n, c) ==
  IF c = 0 THEN << >>
  ELSE << (r * (2 ^ LimbBits)) \div n >>
         \o FracLimbs((r * (2 ^ LimbBits)) % n, n, c - 1)

\* the next k binary digits of r/n
FracBits(r, n, k) ==
  LET limbs == FracLimbs(r, n, (k + LimbBits - 1) \div LimbBits)
  IN  [i \in 1..k |->
         Bit(limbs[((i - 1) \div LimbBits) + 1], LimbBits, ((i - 1) % LimbBits) + 1)]

RECURSIVE FracRem(_, _, _)
\* the remainder left after k digits of that long division
FracRem(r, n, k) ==
  IF k <= LimbBits THEN (r * (2 ^ k)) % n
  ELSE FracRem((r * (2 ^ LimbBits)) % n, n, k - LimbBits)

RECURSIVE LeadZeros(_, _)
\* number of zero digits of r/n (0 < r < n) before its first one digit
LeadZeros(r, n) == IF 2 * r >= n THEN 0 ELSE 1 + LeadZeros(2 * r, n)

Zeros(k) == [i \in 1..k |-> 0]

PadLeft(b, len) == Zeros(len - Len(b)) \o b

\* a bit string of c * LimbBits bits as c numbers
ToLimbs(b, c) ==
  [i \in 1..c |-> BitsToInt(SubSeq(b, (i - 1) * LimbBits + 1, i * LimbBits))]

FromLimbs(l) ==
  [i \in 1..(Len(l) * LimbBits) |->
     Bit(l[((i - 1) \div LimbBits) + 1], LimbBits, ((i - 1) % LimbBits) + 1)]

RECURSIVE LimbsAddC(_, _, _)
\* a + b + carry for two limb strings of the same length; the result has one
\* more limb, the carry out
LimbsAddC(a, b, c) ==
  IF Len(a) = 0 THEN << c >>
  ELSE LET s == a[Len(a)] + b[Len(b)] + c
       IN  LimbsAddC(SubSeq(a, 1, Len(a) - 1), SubSeq(b, 1, Len(b) - 1),
                     s \div (2 ^ LimbBits))
             \o << s % (2 ^ LimbBits) >>

\* index of the first 1 of a bit string that has one
FirstOne(b) == CHOOSE i \in 1..Len(b) : b[i] = 1 /\ \A k \in 1..(i - 1) : b[k] = 0

StripZeros(b) ==
  IF \E i \in 1..Len(b) : b[i] = 1 THEN SubSeq(b, FirstOne(b), Len(b)) ELSE << >>

\* a + b, without leading zeros
BitsAdd(a, b) ==
  LET len == IF Len(a) > Len(b) THEN Len(a) ELSE Len(b)
      c   == (len + LimbBits - 1) \div LimbBits
  IN  StripZeros(FromLimbs(LimbsAddC(ToLimbs(PadLeft(a, c * LimbBits), c),
                                     ToLimbs(PadLeft(b, c * LimbBits), c), 0)))

\* bits + 1; one bit longer when every bit was 1
BitsInc(b) ==
  LET s == BitsAdd(b, << 1 >>) IN PadLeft(s, IF Len(s) > Len(b) THEN Len(s) ELSE Len(b))

\* round a bit string with leading 1 and at least 53 bits, scaled by 2^e, to
\* a double: round to nearest, ties to even
RoundToDouble(b, e) ==
  LET d      == Len(b) - MantissaBits
      kept   == SubSeq(b, 1, MantissaBits)
      guard  == IF d >= 1 THEN b[MantissaBits + 1] ELSE 0
      sticky == \E i \in (MantissaBits + 2)..Len(b) : b[i] = 1
      up     == guard = 1 /\ (sticky \/ kept[MantissaBits] = 1)
      r      == IF up THEN BitsInc(kept) ELSE kept
  IN  IF Len(r) > MantissaBits
        THEN [m |-> SubSeq(r, 1, MantissaBits), e |-> e + d + 1]
        ELSE [m |-> r, e |-> e + d]

\* the double matched / size, for 0 < matched < size
DoubleDiv(matched, size) ==
  LET z      == LeadZeros(matched, size)
      r      == matched * (2 ^ z)
      digits == FracBits(r, size, MantissaBits + 1)
      sticky == IF FracRem(r, size, MantissaBits + 1) # 0 THEN 1 ELSE 0
  IN  RoundToDouble(digits \o << sticky >>, 0 - (z + MantissaBits + 2))

\* the double x * 100   (100 = 64 + 32 + 4)
DoubleTimes100(x) ==
  LET p == BitsAdd(BitsAdd(x.m \o Zeros(6), x.m \o Zeros(5)), x.m \o Zeros(2))
  IN  RoundToDouble(p, x.e)

\* Math.round of a double 0 < x < 2^53: floor(x + 1/2)
MathRound(x) ==
  LET ip == MantissaBits + x.e     \* number of bits left of the binary point
  IN  (IF ip >= 1 THEN BitsToInt(SubSeq(x.m, 1, ip)) ELSE 0)
        + (IF ip >= 0 THEN x.m[ip + 1] ELSE 0)

\* ------------------------------------------------------------------------
\* Scorer (utils.js)
\* ------------------------------------------------------------------------

\* Math.round((matched / size) * 100) for 0 <= matched <= size, size > 0.
\* 0 / size and size / size are the exact doubles 0 and 1.
RoundedPercentage(matched, size) ==
  IF matched = 0 THEN 0
  ELSE IF matched = size THEN 100
  ELSE MathRound(DoubleTimes100(DoubleDiv(matched, size)))

\* the largest keyword set of the model
MaxKeywords == 40

\* RoundedPercentage, computed once for every keyword set size of the model
PercentageTable ==
  [size \in 1..(MaxKeywords + 1) |->
     [matched \in 0..size |-> RoundedPercentage(matched, size)]]

\* scoreJob(jobText, keywords): keywords is a Set of strings
scoreJob(jobText, keywords) ==
  IF Cardinality(keywords) = 0 THEN [score |-> 0, matched |-> 0]
  ELSE LET lowerText == toLowerCase(jobText)
           matched   == Cardinality({k \in keywords : includes(lowerText, k)})
       IN  [score   |-> PercentageTable[Cardinality(keywords)][matched],
            matched |-> matched]

\* ------------------------------------------------------------------------
\* Constants of the background service worker
\* ------------------------------------------------------------------------

MAX_JOB_AGE_DAYS == 30

\* MAX_JOB_AGE_DAYS * 86400 * 1000 milliseconds, in seconds
MAX_JOB_AGE_SECS == MAX_JOB_AGE_DAYS * 86400

\* The hard cap on stored jobs.  The service worker sets 10000; the model
\* scales it down so that a merge can exceed it, and keeps it above the
\* size of the shortlist.
MAX_JOBS == 6

CV_CACHE_HOURS == 24

CV_CACHE_SECS == CV_CACHE_HOURS * 3600

DESC_TRUNCATE == 2000

STORAGE_WARN_BYTES == 8 * 1024 * 1024

\* description bound of the size guard
SHORT_DESC == 500

\* size of the candidate pool and of the shortlist
POOL_SIZE == 100

TOP_N == 5

\* a timestamp that is null
NullTime == -1

\* a date field of a posting that Date cannot parse
BadDate == -2

\* a date before 1970-01-01T00:00:00Z: getTime() is negative
BeforeEpoch == -5

\* ------------------------------------------------------------------------
\* Boards and what they serve
\* ------------------------------------------------------------------------

Sources == {"greenhouse", "lever"}

FALLBACK_SOURCES ==
  [greenhouse |-> << "mongodb", "cloudflare", "coinbase" >>,
   lever      |-> << "palantir", "metabase" >>]

\* tokens that the language model may suggest besides the known ones
SuggestedTokens == [greenhouse |-> {"acme", "mongodb"}, lever |-> {"beta"}]

Tokens ==
  [greenhouse |-> Range(FALLBACK_SOURCES.greenhouse) \cup SuggestedTokens.greenhouse,
   lever      |-> Range(FALLBACK_SOURCES.lever) \cup SuggestedTokens.lever]

AllBoards == UNION {{[source |-> src, token |-> t] : t \in Tokens[src]} : src \in Sources}

\* the characters of a board token
Chars ==
  [mongodb    |-> << "m", "o", "n", "g", "o", "d", "b" >>,
   cloudflare |-> << "c", "l", "o", "u", "d", "f", "l", "a", "r", "e" >>,
   coinbase   |-> << "c", "o", "i", "n", "b", "a", "s", "e" >>,
   palantir   |-> << "p", "a", "l", "a", "n", "t", "i", "r" >>,
   metabase   |-> << "m", "e", "t", "a", "b", "a", "s", "e" >>,
   acme       |-> << "a", "c", "m", "e" >>,
   beta       |-> << "b", "e", "t", "a" >>]

\* a description longer than SHORT_DESC whose last word is a keyword
LongContent == [i \in 1..SHORT_DESC |-> "x"] \o << " ", "s", "q", "l" >>

\* The length of each posting url.  The url "big" stands for the weight of
\* a large store: with it the serialized list exceeds STORAGE_WARN_BYTES.
UrlLength ==
  [u1 |-> 40, u2 |-> 40, u3 |-> 40, u4 |-> 40, u5 |-> 40, u6 |-> 40,
   big |-> STORAGE_WARN_BYTES]

\* The postings a board can list.  A posting of the remote API carries its
\* url, title, location, content (HTML) and date; entries 1 and 3 of mongodb
\* are the same posting url, and the date of palantir's third posting does
\* not parse.  acme lists a posting dated before 1970, one without a date
\* and one with a long description; beta lists one with a long url.
Catalogue(b) ==
  IF b = [source |-> "greenhouse", token |-> "mongodb"] THEN
    << [url |-> "u1", title |-> << "A", "I" >>, location |-> << >>,
        content |-> << "<", "b", ">", "s", "q", "l" >>, date |-> 5],
       [url |-> "u2", title |-> << "s", "q", "l" >>, location |-> << >>,
        content |-> << >>, date |-> NullTime],
       [url |-> "u1", title |-> << "M", "L" >>, location |-> << >>,
        content |-> << >>, date |-> 5] >>
  ELSE IF b = [source |-> "lever", token |-> "palantir"] THEN
    << [url |-> "u1", title |-> << "G", "i", "t" >>, location |-> << "N", "Y" >>,
        content |-> << "a", "i" >>, date |-> 7],
       [url |-> "u2", title |-> << "L", "e", "a", "d" >>, location |-> << >>,
        content |-> << "S", "Q", "L" >>, date |-> 3],
       [url |-> "u3", title |-> << "a", "p", "i" >>, location |-> << >>,
        content |-> << >>, date |-> BadDate] >>
  ELSE IF b = [source |-> "greenhouse", token |-> "acme"] THEN
    << [url |-> "u1", title |-> << "a", "i" >>, location |-> << >>,
        content |-> << >>, date |-> 3],
       [url |-> "u2", title |-> << "D", "e", "v" >>, location |-> << >>,
        content |-> << "S", "Q", "L" >>, date |-> 6],
       [url |-> "u3", title |-> << "O", "p", "s" >>, location |-> << >>,
        content |-> LongContent, date |-> 2],
       [url |-> "u4", title |-> << "Q", "A" >>, location |-> << >>,
        content |-> << >>, date |-> NullTime],
       [url |-> "u5", title |-> << "P", "M" >>, location |-> << >>,
        content |-> << >>, date |-> BeforeEpoch],
       [url |-> "u6", title |-> << "l", "e", "a", "d" >>, location |-> << >>,
        content |-> << >>, date |-> 1] >>
  ELSE IF b = [source |-> "lever", token |-> "beta"] THEN
    << [url |-> "u1", title |-> << "m", "l" >>, location |-> << >>,
        content |-> << >>, date |-> 4],
       [url |-> "big", title |-> << "H", "R" >>, location |-> << >>,
        content |-> << >>, date |-> 8] >>
  ELSE << >>

\* what a board's first posting becomes when the board revises it: the url
\* stays, the other fields change
Revision(b) ==
  [url |-> Catalogue(b)[1].url,
   title |-> << "A", "I", " ", "l", "e", "a", "d" >>, location |-> << "N", "Y" >>,
   content |-> << "s", "q", "l" >>, date |-> 9]

\* the catalogue entries that a board lists, in catalogue order
RECURSIVE Listed(_, _, _)
Listed(cat, on, i) ==
  IF i > Len(cat) THEN << >>
  ELSE (IF i \in on THEN << cat[i] >> ELSE << >>) \o Listed(cat, on, i + 1)

\* ------------------------------------------------------------------------
\* Fetchers
\* ------------------------------------------------------------------------

\* sha1(`${source}|${token}|${jobUrl}`): a digest, taken to be free of
\* collisions, so the hashed triple stands for it
sha1(source, token, jobUrl) == << source, token, jobUrl >>

\* index of the first ">" of s at or after position i, 0 when there is none
IndexOfGt(s, i) ==
  IF \E k \in i..Len(s) : s[k] = ">"
    THEN CHOOSE k \in i..Len(s) : s[k] = ">" /\ \A n \in i..(k - 1) : s[n] # ">"
    ELSE 0

\* content.replace(/<[^>]*>/g, ' '): the leftmost "<" that a ">" follows
\* starts a tag, which ends at the first ">" after it
RECURSIVE StripTags(_)
StripTags(s) ==
  IF \E i \in 1..Len(s) : s[i] = "<" /\ IndexOfGt(s, i + 1) # 0
    THEN LET i == CHOOSE i \in 1..Len(s) :
                    /\ s[i] = "<" /\ IndexOfGt(s, i + 1) # 0
                    /\ \A n \in 1..(i - 1) : ~(s[n] = "<" /\ IndexOfGt(s, n + 1) # 0)
         IN  SubSeq(s, 1, i - 1) \o << " " >>
               \o StripTags(SubSeq(s, IndexOfGt(s, i + 1) + 1, Len(s)))
    ELSE s

\* String.prototype.slice(0, n)
Slice0(s, n) == SubSeq(s, 1, Min(n, Len(s)))

\* new Date(d).toISOString() throws a RangeError for an unparseable date
DateThrows(raw) == raw.date = BadDate

\* one normalised job of a board
NormalizeJob(source, token, raw, now) ==
  [id            |-> sha1(source, token, raw.url),
   source        |-> source,
   company       |-> token,
   title         |-> raw.title,
   location      |-> raw.location,
   url           |-> raw.url,
   posted_at     |-> IF raw.date # NullTime THEN raw.date ELSE NullTime,
   description   |-> Slice0(StripTags(raw.content), DESC_TRUNCATE),
   first_seen_at |-> now,
   score         |-> 0]

\* fetchGreenhouseJobs(token) on a response with HTTP status ok: it throws
\* when a date of the response cannot be converted, and returns the jobs
\* otherwise
fetchGreenhouseJobs(token, response, now) ==
  IF \E i \in 1..Len(response) : DateThrows(response[i])
    THEN [threw |-> TRUE, jobs |-> << >>]
    ELSE [threw |-> FALSE,
          jobs  |-> [i \in 1..Len(response) |->
                       NormalizeJob("greenhouse", token, response[i], now)]]

\* fetchLeverJobs(handle), likewise
fetchLeverJobs(handle, response, now) ==
  IF \E i \in 1..Len(response) : DateThrows(response[i])
    THEN [threw |-> TRUE, jobs |-> << >>]
    ELSE [threw |-> FALSE,
          jobs  |-> [i \in 1..Len(response) |->
                       NormalizeJob("lever", handle, response[i], now)]]

\* ------------------------------------------------------------------------
\* Keyword extraction
\* ------------------------------------------------------------------------

\* the resume documents behind the two links a user may configure
DocText ==
  [cv1 |-> << "S", "Q", "L", " ", "l", "e", "a", "d" >>,
   cv2 |-> << "a", "i" >>]

CvLinks == {"cv1", "cv2"}

\* String.prototype.trim
RECURSIVE trim(_)
trim(s) ==
  IF Len(s) = 0 THEN s
  ELSE IF s[1] = " " THEN trim(Tail(s))
  ELSE IF s[Len(s)] = " " THEN trim(SubSeq(s, 1, Len(s) - 1))
  ELSE s

\* What the language model may answer to the keyword prompt: no usable
\* answer (HTTP error, transport failure, malformed JSON, no array), or an
\* array of keywords
AiKeywordReplies ==
  { [ok |-> FALSE, keywords |-> << >>],
    [ok |-> TRUE,  keywords |-> << >>],
    [ok |-> TRUE,  keywords |-> << << " ", "s", "q", "l" >>, << "g", "i", "t" >>, << " " >> >>] }

\* an extraction that takes an empty array for an answer
aiExtractKeywordsEmptyOk(reply) ==
  IF ~reply.ok
    THEN [threw |-> TRUE, kws |-> {}]
    ELSE [threw |-> FALSE,
          kws   |-> {trim(toLowerCase(reply.keywords[i])) : i \in 1..Len(reply.keywords)}
                      \ {<< >>}]
\* aiExtractKeywords: throws without a non-empty array, else the lowercased,
\* trimmed, non-empty keywords
aiExtractKeywords(reply) ==
  IF ~reply.ok \/ Len(reply.keywords) = 0
    THEN [threw |-> TRUE, kws |-> {}]
    ELSE [threw |-> FALSE,
          kws   |-> {trim(toLowerCase(reply.keywords[i])) : i \in 1..Len(reply.keywords)}
                      \ {<< >>}]

\* the vocabulary of extractSmartKeywords, abridged to the terms that occur
\* in the documents and postings of the model
techTerms ==
  << << "s", "q", "l" >>, << "a", "i" >>, << "m", "l" >>, << "a", "p", "i" >>,
     << "g", "i", "t" >> >>

roleTerms == << << "l", "e", "a", "d" >>, << "s", "e", "n", "i", "o", "r" >> >>

extractSmartKeywords(text) ==
  LET lowerText == toLowerCase(text)
  IN  {t \in Range(techTerms) \cup Range(roleTerms) : includes(lowerText, t)}

\* a cache that still counts as fresh at the age of CV_CACHE_HOURS
CvCacheFreshLate(data, now) ==
  data.cvKeywordsUpdatedAt # NullTime /\ now - data.cvKeywordsUpdatedAt <= CV_CACHE_SECS
\* the test of the cache: a keyword set with a timestamp younger than
\* CV_CACHE_HOURS
CvCacheFresh(data, now) ==
  data.cvKeywordsUpdatedAt # NullTime /\ now - data.cvKeywordsUpdatedAt < CV_CACHE_SECS

\* getCvKeywords.  data is the stored cvLink, cvKeywords, cvKeywordsUpdatedAt
\* and apiKey (a null cvKeywords is the empty set with a null timestamp);
\* docOk tells whether the document export answers, aiReply is the language
\* model's answer.  Returns the keywords, whether the cache is written,
\* which call threw, and which services were called.
getCvKeywords(data, now, docOk, aiReply) ==
  IF CvCacheFresh(data, now)
    THEN [kws |-> data.cvKeywords, write |-> FALSE, docThrew |-> FALSE,
          aiThrew |-> FALSE, calls |-> {}]
  ELSE IF data.cvLink = NULL
    THEN [kws |-> {}, write |-> FALSE, docThrew |-> FALSE, aiThrew |-> FALSE,
          calls |-> {}]
  ELSE IF ~docOk
    THEN [kws |-> data.cvKeywords, write |-> FALSE, docThrew |-> TRUE,
          aiThrew |-> FALSE, calls |-> {"doc"}]
  ELSE LET cvText == DocText[data.cvLink]
           ai     == aiExtractKeywords(aiReply)
       IN  IF data.apiKey # NULL /\ ~ai.threw
             THEN [kws |-> ai.kws, write |-> TRUE, docThrew |-> FALSE,
                   aiThrew |-> FALSE, calls |-> {"doc", "llm"}]
             ELSE [kws |-> extractSmartKeywords(cvText), write |-> TRUE,
                   docThrew |-> FALSE, aiThrew |-> data.apiKey # NULL,
                   calls |-> IF data.apiKey # NULL THEN {"doc", "llm"} ELSE {"doc"}]

\* ------------------------------------------------------------------------
\* The steps of scrapeAllJobs
\* ------------------------------------------------------------------------

Ids(js) == {js[i].id : i \in 1..Len(js)}

\* a run that forgets the stored jobs
ExistingMapNone(existing) == << >>
\* existingMap[j.id] = j for every stored job, read back with Object.values:
\* one entry per id, in the order of the ids' first occurrence, each the last
\* stored entry of its id
ExistingMap(existing) ==
  LET firsts == SelectSeq([i \in 1..Len(existing) |-> i],
                          LAMBDA i : \A k \in 1..(i - 1) : existing[k].id # existing[i].id)
      last(id) == CHOOSE i \in 1..Len(existing) :
                    existing[i].id = id /\ \A k \in (i + 1)..Len(existing) : existing[k].id # id
  IN  [n \in 1..Len(firsts) |-> existing[last(existing[firsts[n]].id)]]

\* a merge that takes every fetched job as new
NotExistingAll(fetched, existingMap) == fetched
\* the fetched jobs whose id is not in existingMap
NotExisting(fetched, existingMap) ==
  SelectSeq(fetched, LAMBDA j : j.id \notin Ids(existingMap))

\* a filter that lets a job go one second before the window ends
PruneEarly(allJobs, cutoff) == SelectSeq(allJobs, LAMBDA j : j.first_seen_at > cutoff + 1)
\* allJobs.filter(j => new Date(j.first_seen_at).getTime() > cutoff)
Prune(allJobs, cutoff) == SelectSeq(allJobs, LAMBDA j : j.first_seen_at > cutoff)

\* [j.title, j.company, j.location, j.description].join(' ')
JobText(j) ==
  j.title \o << " " >> \o Chars[j.company] \o << " " >> \o j.location
          \o << " " >> \o j.description

\* a run that leaves the scores as they are
RescoreNone(allJobs, kwSet) == allJobs
\* allJobs.map: every job with the score of scoreJob on its text
Rescore(allJobs, kwSet) ==
  [i \in 1..Len(allJobs) |->
     [allJobs[i] EXCEPT !.score = scoreJob(JobText(allJobs[i]), kwSet).score]]

\* the comparator of the sort: negative when a sorts before b
Compare(a, b) ==
  IF b.score # a.score THEN b.score - a.score
  ELSE LET da == IF a.posted_at # NullTime THEN a.posted_at ELSE 0
           db == IF b.posted_at # NullTime THEN b.posted_at ELSE 0
       IN  db - da

\* x put before the first element that it sorts strictly before
InsertSorted(sorted, x) ==
  IF \E i \in 1..Len(sorted) : Compare(x, sorted[i]) < 0
    THEN LET i == CHOOSE i \in 1..Len(sorted) :
                    /\ Compare(x, sorted[i]) < 0
                    /\ \A k \in 1..(i - 1) : Compare(x, sorted[k]) >= 0
         IN  SubSeq(sorted, 1, i - 1) \o << x >> \o SubSeq(sorted, i, Len(sorted))
    ELSE Append(sorted, x)

\* Array.prototype.sort with Compare: a stable sort
RECURSIVE SortFrom(_, _, _)
SortFrom(js, i, acc) ==
  IF i > Len(js) THEN acc ELSE SortFrom(js, i + 1, InsertSorted(acc, js[i]))

SortJobs(js) == SortFrom(js, 1, << >>)

\* a cap that keeps the end of the list
CapTail(allJobs) ==
  IF Len(allJobs) > MAX_JOBS
    THEN SubSeq(allJobs, Len(allJobs) - MAX_JOBS + 1, Len(allJobs)) ELSE allJobs
\* if (allJobs.length > MAX_JOBS) allJobs = allJobs.slice(0, MAX_JOBS)
Cap(allJobs) == IF Len(allJobs) > MAX_JOBS THEN Slice0(allJobs, MAX_JOBS) ELSE allJobs

RECURSIVE SumLen(_, _)
SumLen(js, i) ==
  IF i > Len(js) THEN 0
  ELSE 200 + UrlLength[js[i].url] + Len(js[i].title) + Len(js[i].location)
         + Len(js[i].description) + SumLen(js, i + 1)

\* JSON.stringify(allJobs).length: brackets, and per job its strings, its
\* url and about 200 characters of keys, id and timestamps
EstimatedSize(allJobs) == 2 + SumLen(allJobs, 1)

\* a storage check that cuts the description of the first job only
SizeGuardFirst(allJobs) ==
  IF EstimatedSize(allJobs) > STORAGE_WARN_BYTES
    THEN [i \in 1..Len(allJobs) |->
            IF i = 1 /\ Len(allJobs[i].description) > SHORT_DESC
              THEN [allJobs[i] EXCEPT !.description = Slice0(@, SHORT_DESC)]
              ELSE allJobs[i]]
    ELSE allJobs
\* the storage check: descriptions cut to SHORT_DESC when the list is large
SizeGuard(allJobs) ==
  IF EstimatedSize(allJobs) > STORAGE_WARN_BYTES
    THEN [i \in 1..Len(allJobs) |->
            IF Len(allJobs[i].description) > SHORT_DESC
              THEN [allJobs[i] EXCEPT !.description = Slice0(@, SHORT_DESC)]
              ELSE allJobs[i]]
    ELSE allJobs

\* an index of the language model's ranking answer: a JSON value that is a
\* number or not, and that is an integer or has a fraction
Index(v) == [number |-> TRUE, fraction |-> FALSE, v |-> v]

\* what the language model may answer to the ranking prompt
RankReplies ==
  { [ok |-> FALSE, indices |-> << >>],
    [ok |-> TRUE,  indices |-> << >>],
    [ok |-> TRUE,  indices |-> << Index(1), Index(0) >>],
    [ok |-> TRUE,  indices |-> << Index(0), Index(0) >>],
    [ok |-> TRUE,  indices |-> << Index(9) >>],
    [ok |-> TRUE,  indices |-> << Index(0), Index(9) >>],
    [ok |-> TRUE,  indices |-> << [number |-> FALSE, fraction |-> FALSE, v |-> 0] >>],
    [ok |-> TRUE,  indices |-> << [number |-> TRUE, fraction |-> TRUE, v |-> 0] >>] }

\* top100[i] for an index with a fraction
Undefined == [undefined |-> TRUE]

\* aiRankTop5: throws without an array, else the jobs at the valid indices
aiRankTop5(top100, reply) ==
  IF ~reply.ok THEN [threw |-> TRUE, picks |-> << >>]
  ELSE LET valid == SelectSeq(reply.indices,
                      LAMBDA i : i.number /\ i.v >= 0 /\ i.v < Len(top100))
           first == Slice0(valid, TOP_N)
       IN  [threw |-> FALSE,
            picks |-> [k \in 1..Len(first) |->
                         IF first[k].fraction THEN Undefined ELSE top100[first[k].v + 1]]]

\* a shortlist that is left empty when the ranking call throws
ShortlistNoFallback(top100, asked, docOk, reply) ==
  LET rank == aiRankTop5(top100, reply)
  IN  IF asked /\ (~docOk \/ rank.threw) THEN << >>
      ELSE IF asked /\ Len(rank.picks) > 0 THEN rank.picks
      ELSE Slice0(top100, TOP_N)
\* the shortlist of a run: the keyword-only top 5, replaced by the language
\* model's picks when it was asked, answered, and picked at least one job
Shortlist(top100, asked, docOk, reply) ==
  LET rank == aiRankTop5(top100, reply)
  IN  IF asked /\ docOk /\ ~rank.threw /\ Len(rank.picks) > 0
        THEN rank.picks
        ELSE Slice0(top100, TOP_N)

\* ------------------------------------------------------------------------
\* Source discovery
\* ------------------------------------------------------------------------

\* What the language model may answer to the discovery prompt: no usable
\* answer (HTTP error, transport failure, malformed JSON), or candidate
\* tokens per provider, possibly with repetitions
SourceReplies ==
  { [ok |-> FALSE, greenhouse |-> << >>, lever |-> << >>],
    [ok |-> TRUE,  greenhouse |-> << >>, lever |-> << >>],
    [ok |-> TRUE,  greenhouse |-> << "acme" >>, lever |-> << >>],
    [ok |-> TRUE,  greenhouse |-> << "acme", "mongodb", "acme" >>, lever |-> << "beta" >>],
    [ok |-> TRUE,  greenhouse |-> << "mongodb" >>, lever |-> << "beta", "beta" >>] }

\* [...new Map(list.map(b => [b.token, b])).values()]: one entry per token,
\* in the order of the tokens' first occurrence
DedupTokens(list) ==
  SelectSeq([i \in 1..Len(list) |-> i],
            LAMBDA i : \A k \in 1..(i - 1) : list[k] # list[i])

ByToken(list) == [n \in 1..Len(DedupTokens(list)) |-> list[DedupTokens(list)[n]]]

\* The candidates of a reply that pass verification; valid is the set of
\* boards that verifyGreenhouseToken / verifyLeverHandle accept.
Verified(reply, valid) ==
  [greenhouse |-> ByToken(SelectSeq(reply.greenhouse,
                    LAMBDA t : [source |-> "greenhouse", token |-> t] \in valid)),
   lever      |-> ByToken(SelectSeq(reply.lever,
                    LAMBDA t : [source |-> "lever", token |-> t] \in valid))]

Fallback(case) == [sources |-> FALLBACK_SOURCES, fromResume |-> FALSE, case |-> case]

\* a discovery that stores the verified candidates even when there are none
generateInitialSourcesUnchecked(data, docOk, reply, valid) ==
  IF data.cvLink = NULL \/ data.apiKey = NULL THEN Fallback("unconfigured")
  ELSE IF ~docOk THEN Fallback("resume")
  ELSE IF ~reply.ok THEN Fallback("model")
  ELSE [sources |-> Verified(reply, valid), fromResume |-> TRUE, case |-> "verified"]
\* generateInitialSources: what it stores and returns, and on which path.
\* data is the stored cvLink and apiKey, docOk tells whether the document
\* export answers, reply is the language model's answer.
generateInitialSources(data, docOk, reply, valid) ==
  IF data.cvLink = NULL \/ data.apiKey = NULL THEN Fallback("unconfigured")
  ELSE IF ~docOk THEN Fallback("resume")
  ELSE IF ~reply.ok THEN Fallback("model")
  ELSE LET sources == Verified(reply, valid)
       IN  IF Len(sources.greenhouse) + Len(sources.lever) = 0
             THEN Fallback("unverified")
             ELSE [sources |-> sources, fromResume |-> TRUE, case |-> "verified"]

\* ------------------------------------------------------------------------
\* Bounds of the model
\* ------------------------------------------------------------------------

\* how often the clock advances
MaxTicks == 2

\* how many boards answer with an HTTP or network error in one run
MaxBoardFailures == 1

\* the clock first advances by a second less than the retention window, and
\* then second by second
ClockSteps(k) == IF k = 0 THEN {MAX_JOB_AGE_SECS - 1} ELSE {1}

\* the same around the lifetime of the keyword cache
CacheSteps(k) == IF k = 0 THEN {CV_CACHE_SECS - 1} ELSE {1}

\* ------------------------------------------------------------------------
\* State
\* ------------------------------------------------------------------------

VARIABLES
  \* chrome.storage.local
  jobs, topJobs, jobsLastUpdated, jobsLastError,
  jobSources, sourcesGeneratedFromResume,
  cvKeywords, cvKeywordsUpdatedAt, cvLink, apiKey,
  \* the world: the clock, and the catalogue entries each board lists
  now, ticks, remote,
  \* the run of scrapeAllJobs in progress: where it is, and its locals
  pc, run,
  \* a second call of scrapeAllJobs, made while the first is in progress
  pc2, run2,
  \* history: whether the latest run succeeded with every board answering
  \* and nothing changed since it started, whether something changed since
  \* the run in progress started, the first_seen_at first stored for each
  \* posting, and the latest source discovery
  quiet, dirty, discoveredAt, lastDiscovery,
  \* the scorer on its own: its arguments and its result
  sjText, sjKeywords, sjResult

storeVars == << jobs, topJobs, jobsLastUpdated, jobsLastError >>

sourceVars == << jobSources, sourcesGeneratedFromResume >>

cvVars == << cvKeywords, cvKeywordsUpdatedAt >>

configVars == << cvLink, apiKey >>

worldVars == << now, ticks, remote >>

scorerVars == << sjText, sjKeywords, sjResult >>

firstRun == << pc, run >>

secondRun == << pc2, run2 >>

vars == << jobs, topJobs, jobsLastUpdated, jobsLastError, jobSources,
           sourcesGeneratedFromResume, cvKeywords, cvKeywordsUpdatedAt, cvLink,
           apiKey, now, ticks, remote, pc, run, pc2, run2, quiet, dirty,
           discoveredAt, lastDiscovery, sjText, sjKeywords, sjResult >>

NoSources == [greenhouse |-> << >>, lever |-> << >>]

NoRun ==
  [startedAt |-> NullTime, queue |-> << >>, existingMap |-> << >>,
   newJobs |-> << >>, failed |-> {},
   fetched |-> {}, merged |-> << >>, cutoff |-> NullTime, sorted |-> << >>,
   allJobs |-> << >>, keywords |-> {}, kwThrew |-> FALSE, kwDocThrew |-> FALSE,
   kwAge |-> NullTime, kwCalls |-> {},
   kwAnswer |-> [docOk |-> TRUE, ai |-> [ok |-> FALSE, keywords |-> << >>]],
   topJobs |-> << >>, rankThrew |-> FALSE,
   rankAnswer |-> [docOk |-> TRUE, reply |-> [ok |-> FALSE, indices |-> << >>]]]

NoDiscovery ==
  [called |-> FALSE, configured |-> FALSE, docOk |-> FALSE, replyOk |-> FALSE,
   candidates |-> NoSources, down |-> {},
   verified |-> NoSources, returned |-> NoSources]

AllIds == {sha1(b.source, b.token, u) : b \in AllBoards, u \in DOMAIN UrlLength}

\* the state of a fresh installation: an empty store, nothing configured
InitStore ==
  /\ jobs = << >>
  /\ topJobs = << >>
  /\ jobsLastUpdated = NullTime
  /\ jobsLastError = NULL
  /\ jobSources = NoSources
  /\ sourcesGeneratedFromResume = FALSE
  /\ cvKeywords = {}
  /\ cvKeywordsUpdatedAt = NullTime
  /\ cvLink = NULL
  /\ apiKey = NULL

InitRun ==
  /\ pc = "idle"
  /\ run = NoRun
  /\ pc2 = "idle"
  /\ run2 = NoRun
  /\ quiet = FALSE
  /\ dirty = FALSE
  /\ discoveredAt = [id \in AllIds |-> NullTime]
  /\ lastDiscovery = NoDiscovery

\* the result of a scorer that has not been called
NotScored == [score |-> -1, matched |-> -1]

\* The characters of the single-character keywords, and the same in upper
\* case as a job text has them
ScorePool == LowerLetters \o OtherChars

ScoreText == UpperLetters \o OtherChars

Words ==
  {<< "s", "q", "l" >>, << "l", "e", "a", "d" >>, << "g", "i", "t" >>, << "q", "l" >>}

\* The inputs of the scorer: n one-character keywords of which the text
\* holds the first m, and the subsets of a few words against a few texts.
\* Keywords are lower case, as getCvKeywords produces them.
ScoreInputs ==
  {[text |-> SubSeq(ScoreText, 1, m),
    keywords |-> {<< ScorePool[i] >> : i \in 1..n}] :
      n \in 0..MaxKeywords, m \in 0..MaxKeywords}
  \cup
  {[text |-> t, keywords |-> ks] :
      t \in {<< >>, << "s", "q", "l" >>,
             << "S", "Q", "L", " ", "L", "e", "a", "d" >>},
      ks \in SUBSET Words}

InitScorerIdle ==
  /\ sjText = << >>
  /\ sjKeywords = {}
  /\ sjResult = NotScored

Init ==
  /\ InitStore
  /\ InitRun
  /\ InitScorerIdle
  /\ now = 10
  /\ ticks = 0
  /\ remote = [b \in AllBoards |-> {}]

\* ------------------------------------------------------------------------
\* The world
\* ------------------------------------------------------------------------

\* the boards of a source list, Greenhouse first
BoardQueue(sources) ==
  [i \in 1..Len(sources.greenhouse) |->
     [source |-> "greenhouse", token |-> sources.greenhouse[i]]]
  \o [i \in 1..Len(sources.lever) |->
        [source |-> "lever", token |-> sources.lever[i]]]

FallbackBoards == Range(BoardQueue(FALLBACK_SOURCES))

\* the boards that list postings in the runs with an API key
AIBoards ==
  {[source |-> "greenhouse", token |-> "mongodb"],
   [source |-> "lever", token |-> "palantir"]}

\* the boards that list postings when sources are discovered
DiscoveryBoards ==
  {[source |-> "greenhouse", token |-> "mongodb"],
   [source |-> "greenhouse", token |-> "acme"],
   [source |-> "lever", token |-> "beta"]}

\* the candidate boards that may be unreachable when they are verified
DownCandidates == {[source |-> "greenhouse", token |-> "acme"]}

\* The boards that may be down during a run.  cloudflare stands for the
\* fallback boards that list nothing: coinbase and metabase behave like it.
DownBoards ==
  {[source |-> "greenhouse", token |-> "mongodb"],
   [source |-> "greenhouse", token |-> "cloudflare"],
   [source |-> "lever", token |-> "palantir"]}

\* what board b answers now: the postings it lists, the first one as
\* revised once the board has revised it (entry 0 of remote[b])
Response(b) ==
  LET live == Listed(Catalogue(b), remote[b], 1)
  IN  IF 0 \in remote[b]
        THEN [i \in 1..Len(live) |->
                IF live[i].url = Revision(b).url THEN Revision(b) ELSE live[i]]
        ELSE live

\* the boards, the configuration, the clock or the keyword set changed, or
\* a board failed: the latest run is no longer one in the present world, and
\* a run in progress is marked
WorldChanged == quiet' = FALSE /\ dirty' = (pc # "idle")

\* Nothing has run yet.  The boards' listings and the configuration are
\* chosen before the first run and stay as they are afterwards.
Setup ==
  pc = "idle" /\ jobsLastUpdated = NullTime /\ jobsLastError = NULL /\ ticks = 0

\* time passes, between two runs or while a run awaits its calls
Tick(d) ==
  /\ pc \in {"idle", "fetch", "score"}
  /\ ticks < MaxTicks
  /\ now' = now + d
  /\ ticks' = ticks + 1
  /\ WorldChanged
  /\ UNCHANGED << storeVars, sourceVars, cvVars, configVars, remote, pc, run, secondRun,
                  discoveredAt, lastDiscovery, scorerVars >>

\* a board starts to list the next posting of its catalogue
Publish(b) ==
  /\ Setup
  /\ Cardinality(remote[b]) < Len(Catalogue(b))
  /\ remote' = [remote EXCEPT ![b] = @ \cup {Cardinality(@) + 1}]
  /\ WorldChanged
  /\ UNCHANGED << storeVars, sourceVars, cvVars, configVars, now, ticks, pc, run, secondRun,
                  discoveredAt, lastDiscovery, scorerVars >>

\* a board revises its first posting, after the first run
Revise(b) ==
  /\ pc = "idle" /\ ~Setup
  /\ 1 \in remote[b] /\ 0 \notin remote[b]
  /\ remote' = [remote EXCEPT ![b] = @ \cup {0}]
  /\ WorldChanged
  /\ UNCHANGED << storeVars, sourceVars, cvVars, configVars, now, ticks, pc, run,
                  secondRun, discoveredAt, lastDiscovery, scorerVars >>

\* a board takes its first posting down, after the first run
Unlist(b) ==
  /\ pc = "idle" /\ ~Setup
  /\ 1 \in remote[b]
  /\ remote' = [remote EXCEPT ![b] = @ \ {1}]
  /\ WorldChanged
  /\ UNCHANGED << storeVars, sourceVars, cvVars, configVars, now, ticks, pc, run,
                  secondRun, discoveredAt, lastDiscovery, scorerVars >>

\* ------------------------------------------------------------------------
\* The popup: saving the links and the settings
\* ------------------------------------------------------------------------

\* saveLinksBtn: a non-empty resume link is stored
SaveLinks(link) ==
  /\ Setup
  /\ link \in CvLinks
  /\ link # cvLink
  /\ cvLink' = link
  /\ WorldChanged
  /\ UNCHANGED << storeVars, sourceVars, cvVars, apiKey, worldVars, pc, run, secondRun,
                  discoveredAt, lastDiscovery, scorerVars >>

\* saveLinksBtn after the first run: the user configures another resume.
\* The handler stores the link and leaves the cached keywords as they are.
ChangeLinks(link) ==
  /\ pc = "idle" /\ ~Setup
  /\ link \in CvLinks
  /\ link # cvLink
  /\ cvLink' = link
  /\ WorldChanged
  /\ UNCHANGED << storeVars, sourceVars, cvVars, apiKey, worldVars, pc, run, secondRun,
                  discoveredAt, lastDiscovery, scorerVars >>

\* saveSettingsBtn: a non-empty API key is stored
SaveSettings ==
  /\ Setup
  /\ apiKey = NULL
  /\ apiKey' = "key"
  /\ WorldChanged
  /\ UNCHANGED << storeVars, sourceVars, cvVars, cvLink, worldVars, pc, run, secondRun,
                  discoveredAt, lastDiscovery, scorerVars >>

\* an addSource that appends without looking for the token
AddSourceUnchecked(type, token) ==
  /\ Setup
  /\ jobSources' = [jobSources EXCEPT ![type] = Append(@, token)]
  /\ WorldChanged
  /\ UNCHANGED << storeVars, sourcesGeneratedFromResume, cvVars, configVars,
                  worldVars, pc, run, secondRun, discoveredAt, lastDiscovery,
                  scorerVars >>
\* addSource of the popup: a token that is not in the list of its type yet
\* is appended to it
AddSource(type, token) ==
  /\ Setup
  /\ token \notin Range(jobSources[type])
  /\ jobSources' = [jobSources EXCEPT ![type] = Append(@, token)]
  /\ WorldChanged
  /\ UNCHANGED << storeVars, sourcesGeneratedFromResume, cvVars, configVars,
                  worldVars, pc, run, secondRun, discoveredAt, lastDiscovery,
                  scorerVars >>

\* what the user may type into the input of a provider
TypedTokens ==
  [greenhouse |-> {<< "a", "c", "m", "e" >>, << " ", "A", "c", "m", "e" >>, << " " >>},
   lever      |-> {<< "b", "e", "t", "a" >>, << "B", "E", "T", "A", " " >>}]

\* the token whose characters are chars
TokenOf(chars) == CHOOSE t \in DOMAIN Chars : Chars[t] = chars

\* the add button: the typed text is trimmed and lowercased, an empty token
\* is ignored, and addSource goes on with the token
AddTyped(type, typed) ==
  LET token == toLowerCase(trim(typed))
  IN  /\ token # << >>
      /\ AddSource(type, TokenOf(token))

\* removeSource of the popup: the entry at position idx (from 0) of the
\* rendered list is spliced out
RemoveSource(type, idx) ==
  /\ pc = "idle"
  /\ idx \in 0..(Len(jobSources[type]) - 1)
  /\ jobSources' = [jobSources EXCEPT
                      ![type] = SubSeq(@, 1, idx) \o SubSeq(@, idx + 2, Len(@))]
  /\ WorldChanged
  /\ UNCHANGED << storeVars, sourcesGeneratedFromResume, cvVars, configVars,
                  worldVars, pc, run, secondRun, discoveredAt, lastDiscovery,
                  scorerVars >>

\* resetSourcesBtn: the fallback list is stored
ResetSources ==
  /\ pc = "idle"
  /\ jobSources' = FALLBACK_SOURCES
  /\ sourcesGeneratedFromResume' = FALSE
  /\ WorldChanged
  /\ UNCHANGED << storeVars, cvVars, configVars, worldVars, pc, run, secondRun,
                  discoveredAt, lastDiscovery, scorerVars >>

\* ------------------------------------------------------------------------
\* scrapeAllJobs, one action per stretch between two awaits
\* ------------------------------------------------------------------------

\* a resolution that falls back as soon as one provider list is empty
ActiveSourcesEither(stored) ==
  IF Len(stored.greenhouse) = 0 \/ Len(stored.lever) = 0
    THEN FALLBACK_SOURCES ELSE stored
\* the source list a run fetches: the stored one, or the fallback list when
\* none is stored or both of its provider lists are empty
ActiveSources(stored) ==
  IF Len(stored.greenhouse) = 0 /\ Len(stored.lever) = 0
    THEN FALLBACK_SOURCES ELSE stored

\* A call of scrapeAllJobs starts: the source list and the stored jobs are
\* read.  p and r are the position and the locals of the call, pN and rN
\* the same after the step.
StartRunOf(p, pN, rN) ==
  /\ p = "idle"
  /\ pN = "fetch"
  /\ rN = [NoRun EXCEPT !.startedAt = now,
                        !.queue = BoardQueue(ActiveSources(jobSources)),
                        !.existingMap = ExistingMap(jobs)]
  /\ dirty' = FALSE
  /\ UNCHANGED << storeVars, sourceVars, cvVars, configVars, worldVars, quiet,
                  discoveredAt, lastDiscovery, scorerVars >>

StartRun == StartRunOf(pc, pc', run') /\ UNCHANGED secondRun

\* the jobs a board contributes: those it returns whose id is not stored
BoardJobs(b, existingMap) ==
  LET fetched == IF b.source = "greenhouse"
                   THEN fetchGreenhouseJobs(b.token, Response(b), now)
                   ELSE fetchLeverJobs(b.token, Response(b), now)
  IN  IF fetched.threw THEN fetched
      ELSE [threw |-> FALSE, jobs |-> NotExisting(fetched.jobs, existingMap)]

\* a catch that gives up the jobs collected so far
SkipBoardLosing(r, b) == [r EXCEPT !.failed = @ \cup {b}, !.newJobs = << >>]
\* the catch of a board's try: the board is logged and skipped
SkipBoard(r, b) == [r EXCEPT !.failed = @ \cup {b}]

\* the two loops over the boards; down is the set of boards that answer with
\* an HTTP error or not at all.  A board whose fetcher throws is caught and
\* skipped, the others' new jobs are collected in order.
RECURSIVE FetchLoop(_, _, _)
FetchLoop(queue, down, r) ==
  IF Len(queue) = 0 THEN r
  ELSE LET b   == Head(queue)
           got == BoardJobs(b, r.existingMap)
       IN  FetchLoop(Tail(queue), down,
             IF b \in down \/ got.threw
               THEN SkipBoard(r, b)
               ELSE [r EXCEPT !.fetched = @ \cup {b}, !.newJobs = @ \o got.jobs])

\* the fetch phase of the run
FetchBoardsOf(p, r, pN, rN, down) ==
  /\ p = "fetch"
  /\ down \subseteq Range(r.queue)
  /\ Cardinality(down) <= MaxBoardFailures
  /\ rN = [FetchLoop(r.queue, down, r) EXCEPT !.queue = << >>]
  /\ pN = "score"
  /\ IF down # {} THEN WorldChanged ELSE UNCHANGED << quiet, dirty >>
  /\ UNCHANGED << storeVars, sourceVars, cvVars, configVars, worldVars,
                  discoveredAt, lastDiscovery, scorerVars >>

FetchBoards(down) == FetchBoardsOf(pc, run, pc', run', down) /\ UNCHANGED secondRun

\* A board accepts the request of the run and never answers.  fetch is
\* called without a signal or a timeout, so the await of the run never
\* settles: the run stays where it is.
BoardHangs(b) ==
  /\ pc = "fetch"
  /\ b \in Range(run.queue)
  /\ pc' = "hung"
  /\ UNCHANGED << storeVars, sourceVars, cvVars, configVars, worldVars, run,
                  secondRun, quiet, dirty, discoveredAt, lastDiscovery, scorerVars >>

CvData ==
  [cvLink |-> cvLink, cvKeywords |-> cvKeywords,
   cvKeywordsUpdatedAt |-> cvKeywordsUpdatedAt, apiKey |-> apiKey]

\* the answers that getCvKeywords can get: none is asked for while the cache
\* is fresh or no resume is configured, and the language model is asked only
\* with an API key and a document
CvAnswers ==
  IF CvCacheFresh(CvData, now) \/ cvLink = NULL
    THEN {[docOk |-> TRUE, ai |-> [ok |-> FALSE, keywords |-> << >>]]}
    ELSE {[docOk |-> FALSE, ai |-> [ok |-> FALSE, keywords |-> << >>]]}
         \cup {[docOk |-> TRUE, ai |-> r] :
                 r \in IF apiKey = NULL THEN {[ok |-> FALSE, keywords |-> << >>]}
                       ELSE AiKeywordReplies}

\* merge, prune, getCvKeywords, score, sort, cap, size guard
MergeAndScoreOf(p, r, pN, rN, ans) ==
  /\ p = "score"
  /\ LET merged == r.existingMap \o r.newJobs
         cutoff == now - MAX_JOB_AGE_SECS
         kw     == getCvKeywords(CvData, now, ans.docOk, ans.ai)
         scored == Rescore(Prune(merged, cutoff), kw.kws)
         sorted == SortJobs(scored)
     IN  /\ rN = [r EXCEPT !.merged = merged, !.cutoff = cutoff,
                             !.sorted = sorted,
                             !.allJobs = SizeGuard(Cap(sorted)),
                             !.keywords = kw.kws,
                             !.kwThrew = kw.docThrew \/ kw.aiThrew,
                             !.kwDocThrew = kw.docThrew,
                             !.kwAge = IF cvKeywordsUpdatedAt = NullTime THEN NullTime
                                       ELSE now - cvKeywordsUpdatedAt,
                             !.kwCalls = kw.calls,
                             !.kwAnswer = ans]
         /\ IF kw.write
              THEN cvKeywords' = kw.kws /\ cvKeywordsUpdatedAt' = now
              ELSE UNCHANGED cvVars
         /\ IF kw.write /\ kw.kws # cvKeywords
              THEN WorldChanged ELSE UNCHANGED << quiet, dirty >>
  /\ pN = "rank"
  /\ UNCHANGED << storeVars, sourceVars, configVars, worldVars,
                  discoveredAt, lastDiscovery, scorerVars >>

MergeAndScore(ans) == MergeAndScoreOf(pc, run, pc', run', ans) /\ UNCHANGED secondRun

\* a run that asks for a ranking without an API key or a resume link
AsksRankAlways(top100) == Len(top100) > 0
\* whether the run asks the language model for a ranking
AsksRank(top100) == apiKey # NULL /\ cvLink # NULL /\ Len(top100) > 0

RankAnswers(top100) ==
  IF AsksRank(top100)
    THEN {[docOk |-> FALSE, reply |-> [ok |-> FALSE, indices |-> << >>]]}
         \cup {[docOk |-> TRUE, reply |-> r] : r \in RankReplies}
    ELSE {[docOk |-> TRUE, reply |-> [ok |-> FALSE, indices |-> << >>]]}

\* the first_seen_at first stored for each posting since it went live
Discovered(stored) ==
  [id \in AllIds |->
     IF discoveredAt[id] = NullTime /\ id \in Ids(stored)
       THEN stored[CHOOSE i \in 1..Len(stored) :
                     stored[i].id = id /\ \A k \in 1..(i - 1) : stored[k].id # id].first_seen_at
       ELSE discoveredAt[id]]

\* the shortlist: the keyword-only top 5, or the language model's picks
RankOf(p, r, pN, rN, ans) ==
  /\ p = "rank"
  /\ LET top100 == Slice0(r.allJobs, POOL_SIZE)
         asked  == AsksRank(top100)
     IN  rN = [r EXCEPT
                 !.topJobs = Shortlist(top100, asked, ans.docOk, ans.reply),
                 !.rankThrew = asked /\ (~ans.docOk \/ aiRankTop5(top100, ans.reply).threw),
                 !.rankAnswer = ans]
  /\ pN = "persist"
  /\ UNCHANGED << storeVars, sourceVars, cvVars, configVars, worldVars,
                  quiet, dirty, discoveredAt, lastDiscovery, scorerVars >>

Rank(ans) == RankOf(pc, run, pc', run', ans) /\ UNCHANGED secondRun

\* the write of jobs, topJobs, jobsLastUpdated and jobsLastError
PersistOf(p, r, pN, rN) ==
  /\ p = "persist"
  /\ jobs' = r.allJobs
  /\ topJobs' = r.topJobs
  /\ jobsLastUpdated' = now
  /\ jobsLastError' = NULL
  /\ discoveredAt' = Discovered(r.allJobs)
  /\ quiet' = ~dirty
  /\ dirty' = FALSE
  /\ pN = "idle"
  /\ rN = NoRun
  /\ UNCHANGED << sourceVars, cvVars, configVars, worldVars,
                  lastDiscovery, scorerVars >>

Persist == PersistOf(pc, run, pc', run') /\ UNCHANGED secondRun

\* a catch that also stores the jobs the run has got so far
RunThrowsPartial ==
  /\ pc \in {"idle", "score", "rank"}
  /\ jobsLastError' = "TypeError"
  /\ jobs' = run.allJobs
  /\ quiet' = FALSE
  /\ dirty' = FALSE
  /\ pc' = "idle"
  /\ run' = NoRun
  /\ UNCHANGED << topJobs, jobsLastUpdated, sourceVars, cvVars, configVars,
                  worldVars, secondRun, discoveredAt, lastDiscovery, scorerVars >>
\* An exception outside the guarded calls (a read of the store that fails,
\* at the start, in getCvKeywords or before the ranking): the catch of
\* scrapeAllJobs stores its message
RunThrows ==
  /\ pc \in {"idle", "score", "rank"}
  /\ jobsLastError' = "TypeError"
  /\ quiet' = FALSE
  /\ dirty' = FALSE
  /\ pc' = "idle"
  /\ run' = NoRun
  /\ UNCHANGED << jobs, topJobs, jobsLastUpdated, sourceVars, cvVars, configVars,
                  worldVars, secondRun, discoveredAt, lastDiscovery, scorerVars >>

\* ------------------------------------------------------------------------
\* A second call of scrapeAllJobs.  No listener looks whether a run is in
\* progress: the alarm, SCRAPE_NOW, GENERATE_SOURCES and onInstalled each
\* call scrapeAllJobs, and the calls interleave at their awaits.
\* ------------------------------------------------------------------------

StartRun2 == StartRunOf(pc2, pc2', run2') /\ UNCHANGED firstRun

FetchBoards2 == FetchBoardsOf(pc2, run2, pc2', run2', {}) /\ UNCHANGED firstRun

MergeAndScore2(ans) == MergeAndScoreOf(pc2, run2, pc2', run2', ans) /\ UNCHANGED firstRun

Rank2(ans) == RankOf(pc2, run2, pc2', run2', ans) /\ UNCHANGED firstRun

Persist2 == PersistOf(pc2, run2, pc2', run2') /\ UNCHANGED firstRun

\* ------------------------------------------------------------------------
\* generateInitialSources
\* ------------------------------------------------------------------------

\* a verification that accepts every board that answers
VerifiesAnswering(b, down) == b \notin down
\* verifyGreenhouseToken / verifyLeverHandle: the board answers and lists
\* at least one posting
Verifies(b, down) == b \notin down /\ Len(Response(b)) > 0

\* Source discovery, at installation or on request.  down is the set of
\* boards that do not answer the verification.
GenerateInitialSources(docOk, reply, down) ==
  /\ pc = "idle"
  /\ LET valid == {b \in AllBoards : Verifies(b, down)}
         out   == generateInitialSources(CvData, docOk, reply, valid)
     IN  /\ jobSources' = out.sources
         /\ sourcesGeneratedFromResume' = out.fromResume
         /\ lastDiscovery' = [called |-> TRUE,
                              configured |-> cvLink # NULL /\ apiKey # NULL,
                              docOk |-> docOk, replyOk |-> reply.ok,
                              candidates |-> [greenhouse |-> reply.greenhouse,
                                              lever |-> reply.lever],
                              down |-> down,
                              verified |-> Verified(reply, valid),
                              returned |-> out.sources]
  /\ quiet' = FALSE
  /\ UNCHANGED << storeVars, cvVars, configVars, worldVars, pc, run, secondRun, dirty,
                  discoveredAt, scorerVars >>

\* ------------------------------------------------------------------------
\* scoreJob on its own
\* ------------------------------------------------------------------------

\* the call scoreJob(sjText, sjKeywords)
ScoreJob ==
  /\ sjResult = NotScored
  /\ sjResult' = scoreJob(sjText, sjKeywords)
  /\ UNCHANGED << storeVars, sourceVars, cvVars, configVars, worldVars, pc, run,
                  secondRun, quiet, dirty, discoveredAt, lastDiscovery, sjText,
                  sjKeywords >>

Next ==
  \/ \E d \in ClockSteps(ticks) : pc = "idle" /\ Tick(d)
  \/ \E b \in FallbackBoards : Publish(b)
  \/ SaveLinks("cv1")
  \/ StartRun
  \/ \E down \in SUBSET DownBoards : FetchBoards(down)
  \/ \E ans \in CvAnswers : MergeAndScore(ans)
  \/ \E ans \in RankAnswers(Slice0(run.allJobs, POOL_SIZE)) : Rank(ans)
  \/ Persist
  \/ RunThrows

Spec == Init /\ [][Next]_vars

\* ------------------------------------------------------------------------
\* The pipeline with an API key: the language model extracts the keywords
\* and ranks the shortlist.  Every board answers.
\* ------------------------------------------------------------------------

Configured == cvLink # NULL /\ apiKey # NULL

NextAI ==
  \/ \E d \in ClockSteps(ticks) : pc = "idle" /\ Tick(d)
  \/ \E b \in AIBoards : Publish(b)
  \/ SaveLinks("cv1")
  \/ SaveSettings
  \/ Configured /\ StartRun
  \/ FetchBoards({})
  \/ \E ans \in CvAnswers : MergeAndScore(ans)
  \/ \E ans \in RankAnswers(Slice0(run.allJobs, POOL_SIZE)) : Rank(ans)
  \/ Persist

SpecAI == Init /\ [][NextAI]_vars

\* ------------------------------------------------------------------------
\* Source discovery: boards list postings, the user configures the resume
\* and the key, and sources are discovered
\* ------------------------------------------------------------------------

NextDiscovery ==
  \/ \E b \in DiscoveryBoards : Publish(b)
  \/ SaveLinks("cv1")
  \/ SaveSettings
  \/ \E docOk \in BOOLEAN, reply \in SourceReplies, down \in SUBSET DownCandidates :
        GenerateInitialSources(docOk, reply, down)

SpecDiscovery == Init /\ [][NextDiscovery]_vars

\* ------------------------------------------------------------------------
\* The scorer: every input of ScoreInputs, scored once
\* ------------------------------------------------------------------------

InitScore ==
  /\ InitStore
  /\ InitRun
  /\ now = 10
  /\ ticks = 0
  /\ remote = [b \in AllBoards |-> {}]
  /\ \E input \in ScoreInputs :
       /\ sjText = input.text
       /\ sjKeywords = input.keywords
  /\ sjResult = NotScored

SpecScore == InitScore /\ [][ScoreJob]_vars

\* ------------------------------------------------------------------------
\* The pipeline against slow boards: time passes while a run awaits the
\* answers of its fetches.  Every board answers in the end.
\* ------------------------------------------------------------------------

NextSlow ==
  \/ \E d \in ClockSteps(ticks) : pc \in {"idle", "fetch"} /\ Tick(d)
  \/ \E b \in AIBoards : Publish(b)
  \/ StartRun
  \/ FetchBoards({})
  \/ \E ans \in CvAnswers : MergeAndScore(ans)
  \/ \E ans \in RankAnswers(Slice0(run.allJobs, POOL_SIZE)) : Rank(ans)
  \/ Persist

SpecSlow == Init /\ [][NextSlow]_vars

\* ------------------------------------------------------------------------
\* Two triggers: a call of scrapeAllJobs may start while another is in
\* progress.  One board lists postings; it may fail to answer the first call.
\* ------------------------------------------------------------------------

RaceBoards == {[source |-> "greenhouse", token |-> "mongodb"]}

NextRace ==
  \/ \E b \in RaceBoards : Publish(b)
  \/ StartRun
  \/ \E down \in SUBSET RaceBoards : FetchBoards(down)
  \/ \E ans \in CvAnswers : MergeAndScore(ans)
  \/ \E ans \in RankAnswers(Slice0(run.allJobs, POOL_SIZE)) : Rank(ans)
  \/ Persist
  \/ StartRun2
  \/ FetchBoards2
  \/ \E ans \in CvAnswers : MergeAndScore2(ans)
  \/ \E ans \in RankAnswers(Slice0(run2.allJobs, POOL_SIZE)) : Rank2(ans)
  \/ Persist2

SpecRace == Init /\ [][NextRace]_vars

\* ------------------------------------------------------------------------
\* The pipeline against boards that answer, fail, or stay silent.  A
\* continuation whose awaited call has settled is run by the event loop, so
\* each step of a run is taken once it stays possible.
\* ------------------------------------------------------------------------

NextLive ==
  \/ \E b \in RaceBoards : Publish(b)
  \/ StartRun
  \/ \E down \in SUBSET DownBoards : FetchBoards(down)
  \/ \E b \in DownBoards : BoardHangs(b)
  \/ \E ans \in CvAnswers : MergeAndScore(ans)
  \/ \E ans \in RankAnswers(Slice0(run.allJobs, POOL_SIZE)) : Rank(ans)
  \/ Persist
  \/ RunThrows

RunStep ==
  \/ \E down \in SUBSET DownBoards : FetchBoards(down)
  \/ \E ans \in CvAnswers : MergeAndScore(ans)
  \/ \E ans \in RankAnswers(Slice0(run.allJobs, POOL_SIZE)) : Rank(ans)
  \/ Persist

SpecLive == Init /\ [][NextLive]_vars /\ WF_vars(RunStep)

\* ------------------------------------------------------------------------
\* The keyword cache: runs before and after the cache expires, with and
\* without an API key.  Every board answers.
\* ------------------------------------------------------------------------

NextCache ==
  \/ \E d \in CacheSteps(ticks) : pc = "idle" /\ Tick(d)
  \/ \E b \in RaceBoards : Publish(b)
  \/ \E link \in CvLinks : SaveLinks(link)
  \/ SaveSettings
  \/ StartRun
  \/ FetchBoards({})
  \/ \E ans \in CvAnswers : MergeAndScore(ans)
  \/ \E ans \in RankAnswers(Slice0(run.allJobs, POOL_SIZE)) : Rank(ans)
  \/ Persist

SpecCache == Init /\ [][NextCache]_vars

\* ------------------------------------------------------------------------
\* The pipeline over the user's own sources: the boards acme and beta are
\* added in the popup, a resume link or an API key may be set but not both
\* (the language model is never asked), and a board may fail.
\* ------------------------------------------------------------------------

OwnBoards ==
  {[source |-> "greenhouse", token |-> "acme"],
   [source |-> "lever", token |-> "beta"]}

NextOwn ==
  \/ \E b \in OwnBoards : Publish(b)
  \/ Revise([source |-> "greenhouse", token |-> "acme"])
  \/ \E b \in OwnBoards : AddSource(b.source, b.token)
  \/ apiKey = NULL /\ SaveLinks("cv1")
  \/ cvLink = NULL /\ SaveSettings
  \/ StartRun
  \/ \E down \in SUBSET OwnBoards : FetchBoards(down)
  \/ \E ans \in CvAnswers : MergeAndScore(ans)
  \/ \E ans \in RankAnswers(Slice0(run.allJobs, POOL_SIZE)) : Rank(ans)
  \/ Persist

SpecOwn == Init /\ [][NextOwn]_vars

\* ------------------------------------------------------------------------
\* The source list: discovery, and the add, remove and reset buttons of the
\* popup, in any order.  A board lists one posting or none.
\* ------------------------------------------------------------------------

NextSources ==
  \/ \E b \in DiscoveryBoards : remote[b] = {} /\ Publish(b)
  \/ SaveLinks("cv1")
  \/ SaveSettings
  \/ \E reply \in SourceReplies : GenerateInitialSources(TRUE, reply, {})
  \/ \E type \in Sources : \E typed \in TypedTokens[type] : AddTyped(type, typed)
  \/ \E type \in Sources : \E idx \in 0..2 : RemoveSource(type, idx)
  \/ ResetSources

SpecSources == Init /\ [][NextSources]_vars

\* ------------------------------------------------------------------------
\* The resume: the user saves a resume link, and may save another one
\* between two runs.  No API key is set, every board answers.
\* ------------------------------------------------------------------------

NextResume ==
  \/ \E b \in RaceBoards : Publish(b)
  \/ \E link \in CvLinks : SaveLinks(link)
  \/ \E link \in CvLinks : ChangeLinks(link)
  \/ StartRun
  \/ FetchBoards({})
  \/ \E ans \in CvAnswers : MergeAndScore(ans)
  \/ \E ans \in RankAnswers(Slice0(run.allJobs, POOL_SIZE)) : Rank(ans)
  \/ Persist

SpecResume == Init /\ [][NextResume]_vars

\* ------------------------------------------------------------------------
\* The store over time: the user's boards acme and beta list postings and
\* take one down, a board may fail, the user removes a board between two
\* runs, and the clock passes the retention window.  No resume is set.
\* ------------------------------------------------------------------------

NextLeave ==
  \/ \E d \in ClockSteps(ticks) : pc = "idle" /\ ~Setup /\ Tick(d)
  \/ \E b \in OwnBoards : Publish(b)
  \/ \E b \in OwnBoards : AddSource(b.source, b.token)
  \/ \E b \in OwnBoards : Unlist(b)
  \/ \E type \in Sources : ~Setup /\ RemoveSource(type, 0)
  \/ StartRun
  \/ \E down \in SUBSET OwnBoards : FetchBoards(down)
  \/ \E ans \in CvAnswers : MergeAndScore(ans)
  \/ \E ans \in RankAnswers(Slice0(run.allJobs, POOL_SIZE)) : Rank(ans)
  \/ Persist

SpecLeave == Init /\ [][NextLeave]_vars

\* ------------------------------------------------------------------------
\* Properties
\* ------------------------------------------------------------------------

NoDuplicateIds(js) ==
  \A i, k \in 1..Len(js) : i # k => js[i].id # js[k].id

\* the step of a run that writes the store
PersistStep == pc = "persist" /\ pc' = "idle"

\* the number of boards of a source list
BoardCount(sources) == Len(sources.greenhouse) + Len(sources.lever)

\* C1: a run that succeeds right after a successful run, with the boards,
\* the source list and the keyword set unchanged since that run started and
\* every board answering, leaves the stored jobs with the same set of ids,
\* no id twice, and the first_seen_at of every entry as it was.
C1_DedupIdempotence ==
  [][(PersistStep /\ quiet /\ ~dirty) =>
       /\ Ids(jobs') = Ids(jobs)
       /\ NoDuplicateIds(jobs')
       /\ \A i \in 1..Len(jobs) : \A k \in 1..Len(jobs') :
            jobs'[k].id = jobs[i].id =>
              jobs'[k].first_seen_at = jobs[i].first_seen_at]_vars

\* C2: no two entries of the stored jobs have the same id.
C2_UniqueIds == NoDuplicateIds(jobs)

\* C3: while a posting stays live, the first_seen_at stored for it is the
\* one that the run which first discovered it stored.
C3_FirstSeenOnce ==
  \A i \in 1..Len(jobs) : jobs[i].first_seen_at = discoveredAt[jobs[i].id]

\* C4: the cutoff of a run is the retention window before the time of its
\* prune; the run persists no job first seen at the cutoff or before, and it
\* persists every job first seen one second after the cutoff unless the cap
\* applies.
C4_Retention ==
  [][/\ (pc = "score" /\ pc' = "rank") => run'.cutoff = now - MAX_JOB_AGE_SECS
     /\ PersistStep =>
          LET cutoff == run.cutoff
              inside == {k \in 1..Len(run.merged) : run.merged[k].first_seen_at > cutoff}
          IN  /\ \A i \in 1..Len(jobs') : jobs'[i].first_seen_at > cutoff
              /\ \A k \in inside :
                   (run.merged[k].first_seen_at = cutoff + 1
                      /\ Cardinality(inside) <= MAX_JOBS)
                     => run.merged[k].id \in Ids(jobs')]_vars

\* a run, just finished, has kept a job first seen one second inside the
\* window
C4_Witness ==
  /\ pc = "idle" /\ jobsLastUpdated = now /\ jobsLastError = NULL
  /\ \E i \in 1..Len(jobs) : jobs[i].first_seen_at = now - MAX_JOB_AGE_SECS + 1

\* posted_at as the sort reads it
PostedAt(j) == IF j.posted_at = NullTime THEN 0 ELSE j.posted_at

\* a ranks strictly above b: score descending, then posted_at descending
RanksAbove(a, b) ==
  a.score > b.score \/ (a.score = b.score /\ PostedAt(a) > PostedAt(b))

\* the entries of a and of b are the same, each as often, but for the score
SameEntries(a, b) ==
  LET A == [i \in 1..Len(a) |-> [a[i] EXCEPT !.score = 0]]
      B == [i \in 1..Len(b) |-> [b[i] EXCEPT !.score = 0]]
  IN  /\ Len(A) = Len(B)
      /\ \A i \in 1..Len(A) :
           Cardinality({k \in 1..Len(A) : A[k] = A[i]})
             = Cardinality({k \in 1..Len(B) : B[k] = A[i]})

\* job j without its description, which the size guard may shorten
Undescribed(j) == [j EXCEPT !.description = << >>]

\* C5: a run persists at most MAX_JOBS jobs: the merged and pruned jobs in
\* the order of score descending, then posted_at descending, cut after
\* MAX_JOBS (each with its description or the start of it); no dropped job
\* ranks above a kept one, and of MAX_JOBS + 1 jobs exactly one is dropped.
C5_CapEnforcement ==
  [][PersistStep =>
       LET pruned == Prune(run.merged, run.cutoff)
           kept   == Len(jobs')
       IN  /\ kept = Min(Len(pruned), MAX_JOBS)
           /\ SameEntries(run.sorted, pruned)
           /\ \A i, k \in 1..Len(run.sorted) :
                i < k => ~RanksAbove(run.sorted[k], run.sorted[i])
           /\ \A i \in 1..kept : Undescribed(jobs'[i]) = Undescribed(run.sorted[i])
           /\ \A i \in 1..kept : \A k \in (kept + 1)..Len(run.sorted) :
                ~RanksAbove(run.sorted[k], jobs'[i])
           /\ Len(pruned) = MAX_JOBS + 1 => kept = Len(pruned) - 1]_vars

\* a run has cut MAX_JOBS + 1 jobs to MAX_JOBS and dropped one that ranks
\* below a kept one
C5_Witness ==
  /\ pc = "persist"
  /\ Len(run.sorted) = MAX_JOBS + 1
  /\ Len(run.allJobs) = MAX_JOBS
  /\ RanksAbove(run.allJobs[1], run.sorted[MAX_JOBS + 1])

\* a run ends in the catch of scrapeAllJobs
RunEndsInError ==
  /\ pc' = "idle" /\ run' = NoRun
  /\ jobsLastError' # NULL
  /\ pc # "idle" \/ jobsLastError = NULL

\* C6: a run that ends in an exception stores the exception's message and
\* nothing else; jobs, topJobs and jobsLastUpdated are written by no step of
\* a run but the final write, so they are what they were when the run
\* started; and the run ends, idle, without throwing.
C6_StorePreserved ==
  [][/\ pc # "persist" => UNCHANGED << jobs, topJobs, jobsLastUpdated >>
     /\ RunEndsInError =>
          /\ jobsLastError' = "TypeError"
          /\ UNCHANGED << jobs, topJobs, jobsLastUpdated >>]_vars

\* a run has ended in an exception and the jobs of an earlier run are in
\* the store
C6_Witness ==
  /\ pc = "idle" /\ jobsLastError = "TypeError"
  /\ Len(jobs) > 0 /\ Len(topJobs) > 0 /\ jobsLastUpdated # NullTime

\* C7: a board whose fetch fails contributes no job, every other board is
\* fetched and its jobs that are not stored yet are collected and merged,
\* and the run persists with jobsLastError null.
C7_BoardIsolation ==
  [][/\ (pc = "fetch" /\ pc' = "score") =>
          /\ run'.failed \cup run'.fetched = Range(run.queue)
          /\ \A b \in Range(run.queue) :
               IF b \in run'.failed
                 THEN \A i \in 1..Len(run'.newJobs) :
                        ~(run'.newJobs[i].source = b.source
                            /\ run'.newJobs[i].company = b.token)
                 ELSE \A i \in 1..Len(Response(b)) :
                        LET id == sha1(b.source, b.token, Response(b)[i].url)
                        IN  id \notin Ids(run.existingMap) => id \in Ids(run'.newJobs)
     /\ (pc = "score" /\ pc' = "rank") =>
          \A i \in 1..Len(run.newJobs) : run.newJobs[i].id \in Ids(run'.merged)
     /\ (PersistStep /\ run.failed # {}) =>
          jobsLastError' = NULL /\ jobs' = run.allJobs]_vars

\* a run in which a board failed is about to persist the jobs of another
\* board
C7_Witness ==
  /\ pc = "persist" /\ run.failed # {}
  /\ \E i \in 1..Len(run.newJobs) : run.newJobs[i].id \in Ids(run.allJobs)

\* C8: a run in which the keyword extraction or the ranking call threw
\* persists its jobs and its shortlist with jobsLastError null, and the
\* shortlist is not empty when the candidate pool is not; no such throw
\* sets jobsLastError.
C8_GracefulDegradation ==
  [][/\ jobsLastError' = NULL
     /\ (PersistStep /\ (run.kwThrew \/ run.rankThrew)) =>
          /\ jobs' = run.allJobs
          /\ topJobs' = run.topJobs
          /\ Len(Slice0(run.allJobs, POOL_SIZE)) > 0 => Len(topJobs') > 0]_vars

\* the ranking call threw and the run is about to persist a shortlist
C8_Witness ==
  /\ pc = "persist" /\ run.rankThrew /\ run.kwThrew
  /\ Len(run.allJobs) > 0 /\ Len(run.topJobs) > 0

\* round(a / n), halves rounded up
RoundHalfUp(a, n) == (2 * a + n) \div (2 * n)

\* C9: scoreJob(T, K) returns a percentage in 0..100 and a count in 0..|K|;
\* (0, 0) for the empty K; otherwise the count of the keywords that T
\* contains without regard to case, and round(100 * count / |K|), which is
\* 100 when T contains every keyword.
C9_ScoringBounds ==
  sjResult # NotScored =>
    LET size  == Cardinality(sjKeywords)
        count == Cardinality({k \in sjKeywords :
                   includes(toLowerCase(sjText), toLowerCase(k))})
    IN  /\ sjResult.score \in 0..100
        /\ sjResult.matched \in 0..size
        /\ size = 0 => sjResult = [score |-> 0, matched |-> 0]
        /\ size > 0 =>
             /\ sjResult.matched = count
             /\ sjResult.score = RoundHalfUp(100 * count, size)
             /\ (\A k \in sjKeywords : includes(sjText, k)) => sjResult.score = 100

\* C10: generateInitialSources resolves with the list it stores, which has
\* at least one board; it is the fallback list, not flagged, when the key or
\* the resume link is missing, the resume or the language model fails, or
\* no candidate is verified; and it is flagged exactly when it is the list
\* of the verified candidates.
C10_Discovery ==
  LET d        == lastDiscovery
      degraded == ~d.configured \/ ~d.docOk \/ ~d.replyOk \/ BoardCount(d.verified) = 0
  IN  d.called =>
        /\ d.returned = jobSources
        /\ BoardCount(jobSources) >= 1
        /\ degraded => jobSources = FALLBACK_SOURCES /\ ~sourcesGeneratedFromResume
        /\ ~degraded => jobSources = d.verified
        /\ sourcesGeneratedFromResume <=> jobSources = d.verified

\* discovery was configured, the language model answered, and none of its
\* candidates was verified
C10_Witness ==
  /\ lastDiscovery.called /\ lastDiscovery.configured
  /\ lastDiscovery.docOk /\ lastDiscovery.replyOk
  /\ BoardCount(lastDiscovery.verified) = 0
  /\ jobSources = FALLBACK_SOURCES

\* what the fetcher of board b returns for the board's present response
Fetched(b) ==
  IF b.source = "greenhouse"
    THEN fetchGreenhouseJobs(b.token, Response(b), now)
    ELSE fetchLeverJobs(b.token, Response(b), now)

\* C18: whatever the date fields of a board's postings are, the fetcher
\* does not fail and returns one job per posting, with posted_at null for a
\* posting whose date is absent or does not parse.
C18_DateCoercion ==
  \A b \in AllBoards :
    /\ ~Fetched(b).threw
    /\ Len(Fetched(b).jobs) = Len(Response(b))
    /\ \A i \in 1..Len(Fetched(b).jobs) :
         Response(b)[i].date \in {NullTime, BadDate}
           => Fetched(b).jobs[i].posted_at = NullTime

\* C17: the cutoff of a run is the time the run started less the retention
\* window, and every stored job first seen after that cutoff survives the
\* prune of the run, however long the run has waited for its fetches.
C17_RetentionFromStart ==
  [][(pc = "score" /\ pc' = "rank") =>
       /\ run'.cutoff = run.startedAt - MAX_JOB_AGE_SECS
       /\ \A k \in 1..Len(run.existingMap) :
            run.existingMap[k].first_seen_at > run.startedAt - MAX_JOB_AGE_SECS
              => run.existingMap[k].id \in Ids(run'.sorted)]_vars

\* a call of scrapeAllJobs at position p has read the stored jobs and has
\* not written them yet
InFlight(p) == p \in {"fetch", "score", "rank", "persist"}

\* C13: at most one call of scrapeAllJobs is between its read and its write
\* of the stored jobs.
C13_SingleWriter == ~(InFlight(pc) /\ InFlight(pc2))

\* C14: every run that has started comes back to idle.
C14_EveryRunEnds == (pc = "fetch") ~> (pc = "idle")

\* the step of a run in which getCvKeywords is called
KeywordStep == pc = "score" /\ pc' = "rank"

\* C12, as stated: with a cached keyword set younger than 24 hours
\* getCvKeywords returns it and calls neither the document export nor the
\* language model; with a cached set of 24 hours or more and a resume link
\* it re-extracts and stores the new set with the time of the call.
C12_CacheTTL_Stated ==
  [][KeywordStep =>
       LET age == now - cvKeywordsUpdatedAt
       IN  /\ (cvKeywordsUpdatedAt # NullTime /\ age < CV_CACHE_SECS) =>
                /\ run'.keywords = cvKeywords
                /\ run'.kwCalls = {}
                /\ UNCHANGED cvVars
           /\ (cvKeywordsUpdatedAt # NullTime /\ age >= CV_CACHE_SECS /\ cvLink # NULL) =>
                /\ "doc" \in run'.kwCalls
                /\ cvKeywords' = run'.keywords
                /\ cvKeywordsUpdatedAt' = now]_vars

\* C12, amended: as stated while the cached set is younger than 24 hours;
\* with a cached set of 24 hours or more and a resume link getCvKeywords
\* calls the document export, and it stores the re-extracted set with the
\* time of the call when the document arrives, while it returns the stale
\* set and leaves the cache as it is when the document does not arrive.
C12_CacheTTL ==
  [][KeywordStep =>
       LET age == now - cvKeywordsUpdatedAt
       IN  /\ (cvKeywordsUpdatedAt # NullTime /\ age < CV_CACHE_SECS) =>
                /\ run'.keywords = cvKeywords
                /\ run'.kwCalls = {}
                /\ UNCHANGED cvVars
           /\ (cvKeywordsUpdatedAt # NullTime /\ age >= CV_CACHE_SECS /\ cvLink # NULL) =>
                /\ "doc" \in run'.kwCalls
                /\ IF run'.kwDocThrew
                     THEN run'.keywords = cvKeywords /\ UNCHANGED cvVars
                     ELSE /\ cvKeywords' = run'.keywords
                          /\ cvKeywordsUpdatedAt' = now]_vars

\* a run has found the cached set exactly 24 hours old, has fetched the
\* document and has stored the keywords with the time of the call
C12_Witness ==
  /\ pc = "rank" /\ run.kwAge = CV_CACHE_SECS
  /\ "doc" \in run.kwCalls /\ ~run.kwDocThrew
  /\ cvLink # NULL
  /\ cvKeywordsUpdatedAt = now

\* the step of a run that makes the shortlist
RankStep == pc = "rank" /\ pc' = "persist"

\* an index that names a job of a pool of n jobs
ValidIndex(i, n) == i.number /\ ~i.fraction /\ i.v >= 0 /\ i.v < n

\* C16: when the language model is asked for a ranking, the shortlist is
\* the pool's jobs at the returned indices, at most 5 and in the returned
\* order, if the resume and the model answered with a non-empty array of
\* indices that are all valid; in every other case it is the first 5 jobs of
\* the pool.
C16_RerankAllOrNothing ==
  [][RankStep =>
       LET pool    == Slice0(run.allJobs, POOL_SIZE)
           ans     == run'.rankAnswer
           indices == ans.reply.indices
           first   == Slice0(indices, TOP_N)
       IN  AsksRank(pool) =>
             IF /\ ans.docOk /\ ans.reply.ok /\ Len(indices) > 0
                /\ \A k \in 1..Len(indices) : ValidIndex(indices[k], Len(pool))
               THEN run'.topJobs = [k \in 1..Len(first) |-> pool[first[k].v + 1]]
               ELSE run'.topJobs = Slice0(pool, TOP_N)]_vars

\* the run is the first one of a store whose sources are the boards acme
\* and beta, acme answering 2 postings and beta 1, with no keyword
AcmeBetaScenario ==
  /\ jobs = << >> /\ run.existingMap = << >>
  /\ run.fetched = OwnBoards /\ run.failed = {}
  /\ Len(Response([source |-> "greenhouse", token |-> "acme"])) = 2
  /\ Len(Response([source |-> "lever", token |-> "beta"])) = 1
  /\ run.keywords = {}

\* C11: a run without an API key or without a resume link persists as
\* topJobs the first min(5, n) of the n jobs it persists, in their order;
\* the first run over acme with 2 postings and beta with 1, with no
\* keyword, persists 3 jobs of score 0 and the same 3 as topJobs, ordered
\* by posted_at descending.
C11_KeywordOnlyShortlist ==
  [][(PersistStep /\ (apiKey = NULL \/ cvLink = NULL)) =>
       /\ topJobs' = SubSeq(jobs', 1, Min(5, Len(jobs')))
       /\ AcmeBetaScenario =>
            /\ Len(jobs') = 3
            /\ \A i \in 1..Len(jobs') : jobs'[i].score = 0
            /\ topJobs' = jobs'
            /\ \A i, k \in 1..Len(jobs') :
                 i < k => jobs'[i].posted_at > jobs'[k].posted_at]_vars

\* a run without an API key has persisted more than 5 jobs and a shortlist
\* of 5
C11_Witness ==
  /\ pc = "idle" /\ apiKey = NULL /\ jobsLastUpdated # NullTime
  /\ jobsLastError = NULL
  /\ Len(jobs) > 5 /\ Len(topJobs) = 5

\* the run of the scenario is about to persist
C11_ScenarioReached == pc = "persist" /\ AcmeBetaScenario /\ Len(run.allJobs) = 3

\* job j without its score
Unscored(j) == [j EXCEPT !.score = 0]

\* C15, as stated: every job that a run persists under an id that was
\* stored before is a stored job in every field but the score.
C15_ExistingWins_Stated ==
  [][PersistStep =>
       \A i \in 1..Len(jobs') :
         jobs'[i].id \in Ids(jobs) =>
           \E k \in 1..Len(jobs) : Unscored(jobs'[i]) = Unscored(jobs[k])]_vars

\* C15, amended: every job that a run persists under an id that was stored
\* before is a stored job in every field but the score and the description,
\* and its description is the stored one or the first 500 characters of it.
C15_ExistingWins ==
  [][PersistStep =>
       \A i \in 1..Len(jobs') :
         jobs'[i].id \in Ids(jobs) =>
           \E k \in 1..Len(jobs) :
             /\ Undescribed(Unscored(jobs'[i])) = Undescribed(Unscored(jobs[k]))
             /\ jobs'[i].description
                  \in {jobs[k].description, Slice0(jobs[k].description, 500)}]_vars

\* a run that has fetched a revised posting is about to persist the stored
\* entry of its id with the title it was stored with
C15_Witness ==
  LET acme == [source |-> "greenhouse", token |-> "acme"]
      id   == sha1("greenhouse", "acme", Revision(acme).url)
  IN  /\ pc = "persist" /\ 0 \in remote[acme] /\ acme \in run.fetched
      /\ id \in Ids(jobs)
      /\ \E i \in 1..Len(run.allJobs) :
           run.allJobs[i].id = id /\ run.allJobs[i].title # Revision(acme).title

\* C19: the jobs a run persists are in the order of score descending; of two
\* jobs with the same score and a posted_at each, the later posted_at comes
\* first; and no job without a posted_at comes before a job of the same
\* score that has one.
C19_SortOrder ==
  [][PersistStep =>
       \A i, k \in 1..Len(jobs') :
         i < k =>
           /\ jobs'[i].score >= jobs'[k].score
           /\ jobs'[i].score = jobs'[k].score =>
                /\ (jobs'[i].posted_at # NullTime /\ jobs'[k].posted_at # NullTime)
                     => jobs'[i].posted_at >= jobs'[k].posted_at
                /\ ~(jobs'[i].posted_at = NullTime /\ jobs'[k].posted_at # NullTime)]_vars

\* the order of C19 for the postings dated after 1970
C19_SortOrderAfterEpoch ==
  [][PersistStep =>
       \A i, k \in 1..Len(jobs') :
         (i < k /\ jobs'[i].posted_at # BeforeEpoch /\ jobs'[k].posted_at # BeforeEpoch) =>
           /\ jobs'[i].score >= jobs'[k].score
           /\ jobs'[i].score = jobs'[k].score =>
                /\ (jobs'[i].posted_at # NullTime /\ jobs'[k].posted_at # NullTime)
                     => jobs'[i].posted_at >= jobs'[k].posted_at
                /\ ~(jobs'[i].posted_at = NullTime /\ jobs'[k].posted_at # NullTime)]_vars

\* C20, as stated: the score of every job that a run persists is scoreJob
\* of the job's persisted title, company, location and description and the
\* keywords that getCvKeywords returned in the run.
C20_ScoresRecomputed_Stated ==
  [][PersistStep =>
       \A i \in 1..Len(jobs') :
         jobs'[i].score = scoreJob(JobText(jobs'[i]), run.keywords).score]_vars

\* C20, amended: the score of every job that a run persists is scoreJob of
\* the job's title, company, location and its description as it was before
\* the size guard of the run, and the keywords that getCvKeywords returned
\* in the run; the scores of the store before the run play no part.
C20_ScoresRecomputed ==
  [][PersistStep =>
       /\ Len(jobs') <= Len(run.sorted)
       /\ \A i \in 1..Len(jobs') :
            /\ Undescribed(jobs'[i]) = Undescribed(run.sorted[i])
            /\ jobs'[i].score = scoreJob(JobText(run.sorted[i]), run.keywords).score]_vars

\* a run is about to persist a stored job with another score than the
\* stored one
C20_Witness ==
  /\ pc = "persist"
  /\ \E i \in 1..Len(run.allJobs) : \E k \in 1..Len(jobs) :
       /\ run.allJobs[i].id = jobs[k].id
       /\ run.allJobs[i].score # jobs[k].score
       /\ run.allJobs[i].score = scoreJob(JobText(run.allJobs[i]), run.keywords).score

\* the language model's answer to the keyword prompt is a failure: an HTTP
\* error, a transport failure, malformed JSON, or no non-empty keywords array
ExtractionFails(reply) == ~reply.ok \/ Len(reply.keywords) = 0

\* C21: when getCvKeywords, with an API key, has the resume text and the
\* language model's extraction fails, the keyword set it returns and stores,
\* with the time of the call, is extractSmartKeywords of that resume text;
\* the run goes on to the ranking and persists with jobsLastError null.
C21_PatternFallback ==
  [][/\ (/\ KeywordStep /\ apiKey # NULL /\ cvLink # NULL
         /\ ~CvCacheFresh(CvData, now)
         /\ run'.kwAnswer.docOk /\ ExtractionFails(run'.kwAnswer.ai)) =>
          /\ "llm" \in run'.kwCalls
          /\ run'.keywords = extractSmartKeywords(DocText[cvLink])
          /\ cvKeywords' = extractSmartKeywords(DocText[cvLink])
          /\ cvKeywordsUpdatedAt' = now
          /\ jobsLastError' = jobsLastError
     /\ (PersistStep /\ "llm" \in run.kwCalls /\ ExtractionFails(run.kwAnswer.ai)) =>
          jobsLastError' = NULL /\ jobs' = run.allJobs]_vars

\* the language model answered the keyword prompt with an empty array, and
\* the run has scored with the pattern keywords of the resume
C21_Witness ==
  /\ pc = "rank" /\ apiKey # NULL /\ "llm" \in run.kwCalls
  /\ run.kwAnswer.ai = [ok |-> TRUE, keywords |-> << >>]
  /\ run.keywords = extractSmartKeywords(DocText[cvLink])
  /\ run.keywords # {}
  /\ cvKeywords = run.keywords /\ cvKeywordsUpdatedAt = now

\* the step of a call of scrapeAllJobs that resolves the source list
StartStep == pc = "idle" /\ pc' = "fetch"

\* C22: a run fetches the boards of the stored jobSources, Greenhouse first,
\* when at least one provider list of it is not empty, and the boards of
\* FALLBACK_SOURCES when no list is stored or both are empty; it never has
\* zero boards to fetch, and its fetch phase tries every one of them.
C22_ActiveSources ==
  [][/\ StartStep =>
          /\ BoardCount(jobSources) >= 1 => run'.queue = BoardQueue(jobSources)
          /\ BoardCount(jobSources) = 0 => run'.queue = BoardQueue(FALLBACK_SOURCES)
          /\ Len(run'.queue) >= 1
     /\ (pc = "fetch" /\ pc' = "score") =>
          run'.fetched \cup run'.failed = Range(run.queue)]_vars

\* a run has started over a stored list with no Greenhouse board and one
\* Lever board, and fetches that board alone
C22_Witness ==
  /\ pc = "fetch"
  /\ jobSources = [greenhouse |-> << >>, lever |-> << "beta" >>]
  /\ run.queue = << [source |-> "lever", token |-> "beta"] >>

\* a run has started with nothing stored, over the fallback boards
C22_FallbackReached ==
  pc = "fetch" /\ jobSources = NoSources /\ Len(run.queue) = BoardCount(FALLBACK_SOURCES)

\* a call of generateInitialSources has stored its list
DiscoveryStep ==
  lastDiscovery'.called /\ (lastDiscovery' # lastDiscovery \/ jobSources' # jobSources)

\* C23: when generateInitialSources stores a list flagged as derived from
\* the resume, every board of the list is a candidate of the language model
\* that answered its verification with at least one posting; no candidate
\* that was unreachable or listed nothing is in the list; and every
\* candidate that passed is in it, whatever became of the others.
C23_OnlyVerified ==
  [][(DiscoveryStep /\ sourcesGeneratedFromResume') =>
       \A src \in Sources :
         LET d         == lastDiscovery'
             passed(t) == /\ [source |-> src, token |-> t] \notin d.down
                          /\ Len(Response([source |-> src, token |-> t])) > 0
         IN  /\ \A i \in 1..Len(jobSources'[src]) :
                  /\ jobSources'[src][i] \in Range(d.candidates[src])
                  /\ passed(jobSources'[src][i])
             /\ \A t \in Range(d.candidates[src]) :
                  passed(t) <=> t \in Range(jobSources'[src])]_vars

\* a discovery has stored mongodb and beta while acme, a candidate of the
\* same answer, did not answer its verification
C23_Witness ==
  /\ lastDiscovery.called /\ sourcesGeneratedFromResume
  /\ "acme" \in Range(lastDiscovery.candidates.greenhouse)
  /\ [source |-> "greenhouse", token |-> "acme"] \in lastDiscovery.down
  /\ jobSources.greenhouse = << "mongodb" >>
  /\ jobSources.lever = << "beta" >>

\* C24: no provider list of the stored jobSources has the same token twice,
\* after any sequence of discoveries, additions, removals and resets.
C24_SourcesDeduplicated ==
  \A src \in Sources :
    \A i, k \in 1..Len(jobSources[src]) :
      i # k => jobSources[src][i] # jobSources[src][k]

\* a discovery whose answer named acme has stored it, and the popup has
\* added beta to the empty Lever list
C24_Witness ==
  /\ lastDiscovery.called /\ sourcesGeneratedFromResume
  /\ lastDiscovery.candidates.lever = << >>
  /\ jobSources = [greenhouse |-> << "acme" >>, lever |-> << "beta" >>]

\* C25: when the serialized list of a run, sorted and capped, is larger
\* than STORAGE_WARN_BYTES, every job the run persists has a description of
\* at most 500 characters, the start of the one it had; otherwise every job
\* is persisted with the description it had.
C25_UniformSizeGuard ==
  [][PersistStep =>
       LET capped == Cap(run.sorted)
       IN  /\ Len(jobs') = Len(capped)
           /\ IF EstimatedSize(capped) > STORAGE_WARN_BYTES
                THEN \A i \in 1..Len(jobs') :
                       /\ Len(jobs'[i].description) <= 500
                       /\ jobs'[i].description = Slice0(capped[i].description, 500)
                ELSE \A i \in 1..Len(jobs') :
                       jobs'[i].description = capped[i].description]_vars

\* a run over a list larger than STORAGE_WARN_BYTES is about to persist a
\* job, not the first of the list, with its description cut to 500
C25_Witness ==
  /\ pc = "persist"
  /\ EstimatedSize(Cap(run.sorted)) > STORAGE_WARN_BYTES
  /\ \E i \in 2..Len(run.allJobs) :
       /\ Len(run.sorted[i].description) > 500
       /\ Len(run.allJobs[i].description) = 500

\* a run over a small list is about to persist a description longer than 500
C25_SmallReached ==
  /\ pc = "persist"
  /\ EstimatedSize(Cap(run.sorted)) <= STORAGE_WARN_BYTES
  /\ \E i \in 1..Len(run.allJobs) : Len(run.allJobs[i].description) > 500

\* the locals of the call of scrapeAllJobs that writes the store in this step
Writer == IF pc = "persist" /\ pc' = "idle" THEN run ELSE run2

\* a call of scrapeAllJobs writes the store
WriteStep == (pc = "persist" /\ pc' = "idle") \/ (pc2 = "persist" /\ pc2' = "idle")

\* C26: when a call of scrapeAllJobs writes the store, every stored job
\* that another call has added since this call read the store, that is
\* inside the retention window of this call and that the cap leaves room
\* for, is in the jobs it writes.
C26_NoLostUpdate ==
  [][WriteStep =>
       \A k \in 1..Len(jobs) :
         (/\ jobs[k].id \notin Ids(Writer.existingMap)
          /\ jobs[k].first_seen_at > Writer.cutoff
          /\ Cardinality(Ids(jobs) \cup Ids(Writer.sorted)) <= MAX_JOBS)
           => jobs[k].id \in Ids(jobs')]_vars

\* C27: a posting that is stored, whose board answers the run and returns
\* it, is in the jobs the run persists, unless the cap applies.
C27_LivePostingStays ==
  [][PersistStep =>
       \A b \in run.fetched : \A i \in 1..Len(Response(b)) :
         LET id == sha1(b.source, b.token, Response(b)[i].url)
         IN  (id \in Ids(jobs) /\ Len(run.sorted) <= MAX_JOBS /\ Len(run.merged) <= MAX_JOBS)
               => id \in Ids(jobs')]_vars

\* C28: the shortlist a run persists has at most 5 entries, each of them is
\* one of the first 100 jobs the run persists, and no two of them have the
\* same id.
C28_ShortlistWellFormed ==
  [][PersistStep =>
       LET pool == Slice0(jobs', POOL_SIZE)
       IN  /\ Len(topJobs') <= 5
           /\ \A i \in 1..Len(topJobs') : topJobs'[i] \in Range(pool)
           /\ \A i, k \in 1..Len(topJobs') :
                i # k => topJobs'[i].id # topJobs'[k].id]_vars

\* C29: the keyword set a run scores with, when it is not empty, is the one
\* extracted from the document of the resume link that is configured at the
\* time of the run.
C29_KeywordsFollowResume ==
  [][(KeywordStep /\ cvLink # NULL /\ apiKey = NULL) =>
       run'.keywords \in {{}, extractSmartKeywords(DocText[cvLink])}]_vars

\* job j with the score the run gives it
Rescored(j, kwSet) == [j EXCEPT !.score = scoreJob(JobText(j), kwSet).score]

\* C30: a stored job that is not among the jobs a run persists was first
\* seen at the cutoff of the run or before, or the run persists MAX_JOBS jobs
\* of which none ranks below it; whether its board is still in the source
\* list, answered the run, or still lists the posting plays no part.
C30_LeaveByAgeOrCap ==
  [][PersistStep =>
       \A k \in 1..Len(jobs) :
         jobs[k].id \notin Ids(jobs') =>
           \/ jobs[k].first_seen_at <= run.cutoff
           \/ /\ Len(jobs') = MAX_JOBS
              /\ \A i \in 1..Len(jobs') :
                   ~RanksAbove(Rescored(jobs[k], run.keywords), jobs'[i])]_vars

\* a run is about to persist a stored job of beta although beta has been
\* removed from the source list, and a stored job of acme although acme did
\* not answer
C30_Witness ==
  /\ pc = "persist"
  /\ jobSources.lever = << >> /\ jobSources.greenhouse = << "acme" >>
  /\ [source |-> "greenhouse", token |-> "acme"] \in run.failed
  /\ \E k \in 1..Len(jobs) : jobs[k].company = "beta" /\ jobs[k].id \in Ids(run.allJobs)
  /\ \E k \in 1..Len(jobs) : jobs[k].company = "acme" /\ jobs[k].id \in Ids(run.allJobs)

\* a run is about to persist a stored job that its board has taken down
C30_UnlistedReached ==
  LET acme == [source |-> "greenhouse", token |-> "acme"]
  IN  /\ pc = "persist" /\ acme \in run.fetched /\ 1 \notin remote[acme]
      /\ sha1("greenhouse", "acme", "u1") \in Ids(jobs) \cap Ids(run.allJobs)

\* a run is about to drop a stored job by the cap
C30_CapReached ==
  /\ pc = "persist" /\ Len(run.sorted) > MAX_JOBS
  /\ \E k \in 1..Len(jobs) :
       jobs[k].first_seen_at > run.cutoff /\ jobs[k].id \notin Ids(run.allJobs)

\* a run is about to drop a stored job by its age
C30_AgeReached ==
  /\ pc = "persist"
  /\ \E k \in 1..Len(jobs) :
       jobs[k].first_seen_at <= run.cutoff /\ jobs[k].id \notin Ids(run.allJobs)

====
